---- MODULE Spec2Model ----
(***************************************************************************)
(* Model of the Google Calendar event resource of                          *)
(* terraform-provider-googlecalendar (googlecalendar/resource_event.go).   *)
(*                                                                         *)
(* Two specifications share the module:                                    *)
(*   Spec     the lifecycle of one resource: Create, Read, Update, Delete  *)
(*            against the remote calendar, each call succeeding or failing *)
(*            and the calendar changing under the resource, also between  *)
(*            the two remote calls of an Update                            *)
(*   SpecMap  the field mapping: buildEvent followed by readEvent, on      *)
(*            inputs drawn from bounded sets                               *)
(*                                                                         *)
(* Encodings.  A framework value (types.String, types.Bool, types.List,    *)
(* types.Map, types.Set) is a record [st, v]: st is "null", "known" or     *)
(* "unknown" and v is what ValueString()/ValueBool() yield (the zero value *)
(* when null).  A list or a map of strings also has nulls, the positions   *)
(* or keys whose element is a null string; v holds "" there.  A Go pointer is a sequence: <<>> is nil, <<x>> points to   *)
(* x.  The strings path.Base and fmt.Sprintf work on (meet ids, entry      *)
(* point URIs and labels) are sequences of one-character strings; every    *)
(* other string is opaque.                                                 *)
(***************************************************************************)
EXTENDS Integers, Sequences, FiniteSets, TLC

\* ------------------------------------------------------------------ bounds
\* longest meet id (in characters) drawn as conference.google_meet_id
MaxIdLen == 2
\* longest desired attendee set and longest existing remote attendee list
MaxAtt == 2
\* longest recurrence list
MaxRecur == 2
\* number of events the remote service creates in one behaviour
MaxInserts == 2

\* MaxAttendees(25) of the insert and update calls
AttendeeCap == 25
\* ConferenceDataVersion(1) of the insert and update calls
ConferenceVersion == 1

\* ------------------------------------------------------- framework values
StringValue(s) == [st |-> "known", v |-> s]
StringNull == [st |-> "null", v |-> ""]
BoolValue(b) == [st |-> "known", v |-> b]
ListValue(l) == [st |-> "known", v |-> l, nulls |-> {}]
ListNull == [st |-> "null", v |-> <<>>, nulls |-> {}]
ListUnknown == [st |-> "unknown", v |-> <<>>, nulls |-> {}]
\* the list [null]
ListOfNull == [st |-> "known", v |-> <<"">>, nulls |-> {1}]
MapValue(m) == [st |-> "known", v |-> m, nulls |-> {}]
\* the map {key = null}
MapOfNull(key) == [st |-> "known", v |-> {<<key, <<>> >>}, nulls |-> {key}]
MapNull == [st |-> "null", v |-> {}, nulls |-> {}]
SetValue(l) == [st |-> "known", v |-> l]
SetNull == [st |-> "null", v |-> <<>>]
IsNull(x) == x.st = "null"
IsUnknown(x) == x.st = "unknown"

Nil == <<>>
Ptr(x) == <<x>>

\* --------------------------------------------------------- character text
\* "meet.google.com/" and "https://meet.google.com/", the fmt.Sprintf formats
MeetLabelPrefix ==
    <<"m","e","e","t",".","g","o","o","g","l","e",".","c","o","m","/">>
MeetUriPrefix == <<"h","t","t","p","s",":","/","/">> \o MeetLabelPrefix

RECURSIVE StripTrailingSlashes(_)
StripTrailingSlashes(p) ==
    IF Len(p) > 0 /\ p[Len(p)] = "/"
    THEN StripTrailingSlashes(SubSeq(p, 1, Len(p) - 1))
    ELSE p

\* strings.LastIndexByte(p, '/'), 1-based; 0 when there is none
LastSlash(p) ==
    LET at == {i \in 1..Len(p) : p[i] = "/"}
    IN  IF at = {} THEN 0 ELSE CHOOSE i \in at : \A j \in at : j <= i

\* path.Base
Base(p) ==
    IF p = <<>> THEN <<".">>
    ELSE LET q == StripTrailingSlashes(p)
             r == IF LastSlash(q) > 0 THEN SubSeq(q, LastSlash(q) + 1, Len(q)) ELSE q
         IN  IF r = <<>> THEN <<"/">> ELSE r

\* ------------------------------------------------------ transparency enum
boolToTransparencyInverted(showAsAvailable) ==
    IF showAsAvailable THEN "opaque" ELSE "transparent"

boolToTransparency(showAsAvailable) ==
    IF ~showAsAvailable THEN "opaque" ELSE "transparent"

transparencyToBoolNotOpaque(s) == s # "opaque"

transparencyToBool(s) == s = "transparent"

\* ------------------------------------------------------- the remote event
\* calendar.Event{}: the zero value buildEvent starts from in Create
EmptyEvent ==
    [Id |-> "", Summary |-> "", Location |-> "", Description |-> "",
     GuestsCanInviteOthers |-> Nil, GuestsCanModify |-> FALSE,
     GuestsCanSeeOtherGuests |-> Nil, Transparency |-> "", Visibility |-> "",
     Start |-> Nil, End |-> Nil, Recurrence |-> <<>>, ConferenceData |-> Nil,
     Attendees |-> <<>>, Attachments |-> <<>>, HtmlLink |-> ""]

\* calendar.EventAttendee{Email: e}: every other field at its zero value.
\* ResponseStatus stands for the fields of the remote record the resource
\* does not model.
NewAttendee(email) == [Email |-> email, Optional |-> FALSE, ResponseStatus |-> ""]

\* ------------------------------------------------------------- buildEvent
\* "Set basic fields": summary, location, description, the guest flags,
\* transparency and visibility
buildBasicFields(model, event) ==
    [event EXCEPT !.Summary = model.Summary.v,
                  !.Location = model.Location.v,
                  !.Description = model.Description.v,
                  !.GuestsCanInviteOthers = Ptr(model.GuestsCanInviteOthers.v),
                  !.GuestsCanModify = model.GuestsCanModify.v,
                  !.GuestsCanSeeOtherGuests = Ptr(model.GuestsCanSeeOtherGuests.v),
                  !.Transparency = boolToTransparency(model.ShowAsAvailable.v),
                  !.Visibility = model.Visibility.v]

buildDateTimeEndFromStart(model, event) ==
    [event EXCEPT !.Start = Ptr([DateTime |-> model.Start.v, TimeZone |-> model.Timezone.v]),
                  !.End = Ptr([DateTime |-> model.Start.v, TimeZone |-> model.Timezone.v])]

\* "Set date/time fields"
buildDateTime(model, event) ==
    [event EXCEPT !.Start = Ptr([DateTime |-> model.Start.v, TimeZone |-> model.Timezone.v]),
                  !.End = Ptr([DateTime |-> model.End.v, TimeZone |-> model.Timezone.v])]

\* ElementsAs(ctx, &target, false) into Go strings: an unknown collection
\* and a null element are conversion errors, and the target then stays at
\* the zero value it was declared with
ElementsAs(x, zero) ==
    IF IsUnknown(x) \/ x.nulls # {}
    THEN [diags |-> <<"Value Conversion Error">>, value |-> zero]
    ELSE [diags |-> <<>>, value |-> x.v]

buildRecurrenceUnguarded(model, event) ==
    [event EXCEPT !.Recurrence = ElementsAs(model.Recurrence, <<>>).value]

\* "Set recurrence"
buildRecurrence(model, event) ==
    IF ~IsNull(model.Recurrence)
    THEN [event EXCEPT !.Recurrence = ElementsAs(model.Recurrence, <<>>).value]
    ELSE event

\* conference["google_meet_id"]: the value and whether the key is present
MapLookup(m, key) ==
    IF \E p \in m : p[1] = key
    THEN [ok |-> TRUE, value |-> (CHOOSE p \in m : p[1] = key)[2]]
    ELSE [ok |-> FALSE, value |-> <<>>]

MeetConferenceDataPlainHttp(googleMeetID) ==
    [ConferenceSolution |-> Ptr([Key |-> Ptr([Type |-> "hangoutsMeet"])]),
     EntryPoints |-> << [EntryPointType |-> "video",
                         Label |-> MeetLabelPrefix \o googleMeetID,
                         Uri |-> <<"h","t","t","p",":","/","/">> \o MeetLabelPrefix \o googleMeetID] >>]

\* the calendar.ConferenceData literal synthesized from a meet id
MeetConferenceData(googleMeetID) ==
    [ConferenceSolution |-> Ptr([Key |-> Ptr([Type |-> "hangoutsMeet"])]),
     EntryPoints |-> << [EntryPointType |-> "video",
                         Label |-> MeetLabelPrefix \o googleMeetID,
                         Uri |-> MeetUriPrefix \o googleMeetID] >>]

\* "Set conference data"
buildConferenceData(model, event) ==
    IF ~IsNull(model.Conference) /\ ~IsUnknown(model.Conference)
    THEN LET g == MapLookup(ElementsAs(model.Conference, {}).value, "google_meet_id")
         IN  IF g.ok /\ g.value # <<>>
             THEN [event EXCEPT !.ConferenceData = Ptr(MeetConferenceData(g.value))]
             ELSE event
    ELSE event

\* index of the first existing attendee with this email; 0 when there is none
FirstWithEmail(existing, email) ==
    LET at == {k \in 1..Len(existing) : existing[k].Email = email}
    IN  IF at = {} THEN 0 ELSE CHOOSE k \in at : \A j \in at : k <= j

\* The loop over the desired attendees.  attendeesExisting is a slice of
\* pointers and apiAttendees[i] = ea stores that pointer, so the assignment
\* to apiAttendees[i].Optional writes into the existing record: heap holds
\* the existing records as they stand after the writes so far, and refs[i]
\* is apiAttendees[i], either a fresh record (k = 0, rec) or the pointer to
\* existing record k.
RECURSIVE attendeeLoop(_, _, _, _)
attendeeLoop(attendees, i, heap, refs) ==
    IF i > Len(attendees) THEN [heap |-> heap, refs |-> refs]
    ELSE LET att == attendees[i]
             k == FirstWithEmail(heap, att.Email.v)
         IN  IF k = 0
             THEN attendeeLoop(attendees, i + 1, heap,
                      Append(refs, [k |-> 0,
                                    rec |-> [NewAttendee(att.Email.v)
                                               EXCEPT !.Optional = att.Optional.v]]))
             ELSE attendeeLoop(attendees, i + 1,
                      [heap EXCEPT ![k].Optional = att.Optional.v],
                      Append(refs, [k |-> k, rec |-> heap[k]]))

\* apiAttendees as the update call serializes it, after the whole loop
mergeAttendees(attendees, attendeesExisting) ==
    LET r == attendeeLoop(attendees, 1, attendeesExisting, <<>>)
    IN  [i \in 1..Len(attendees) |->
            IF r.refs[i].k = 0 THEN r.refs[i].rec ELSE r.heap[r.refs[i].k]]

\* "Set attendees"
buildAttendees(model, event) ==
    IF ~IsNull(model.Attendees) /\ ~IsUnknown(model.Attendees)
    THEN [event EXCEPT !.Attendees = mergeAttendees(model.Attendees.v, event.Attendees)]
    ELSE event

\* "Set attachments"
buildAttachments(model, event) ==
    IF ~IsNull(model.Attachments) /\ ~IsUnknown(model.Attachments)
    THEN [event EXCEPT !.Attachments =
             [i \in 1..Len(model.Attachments.v) |->
                 [FileUrl |-> model.Attachments.v[i].FileURL.v,
                  MimeType |-> model.Attachments.v[i].MimeType.v,
                  Title |-> model.Attachments.v[i].Title.v]]]
    ELSE event

\* the diagnostics buildEvent returns: those of its conversions of the
\* recurrence list and of the conference map; the attendee and attachment
\* blocks convert into structs of framework values, which hold any element
buildEventDiags(model) ==
    (IF ~IsNull(model.Recurrence)
     THEN ElementsAs(model.Recurrence, <<>>).diags ELSE <<>>)
    \o (IF ~IsNull(model.Conference) /\ ~IsUnknown(model.Conference)
        THEN ElementsAs(model.Conference, {}).diags ELSE <<>>)

\* resp.Diagnostics.HasError()
HasError(diags) == diags # <<>>

buildEvent(model, event) ==
    buildAttachments(model,
      buildAttendees(model,
        buildConferenceData(model,
          buildRecurrence(model,
            buildDateTime(model,
              buildBasicFields(model, event))))))

\* -------------------------------------------------------------- readEvent
\* summary, location, description ("treat empty strings as null"), start,
\* end, timezone, the guest flags, show-as-available and visibility
readBasicFields(model, event) ==
    [model EXCEPT
       !.Summary = StringValue(event.Summary),
       !.Location = IF event.Location # "" THEN StringValue(event.Location) ELSE StringNull,
       !.Description = IF event.Description # "" THEN StringValue(event.Description)
                       ELSE StringNull,
       !.Start = IF event.Start # Nil THEN StringValue(event.Start[1].DateTime) ELSE @,
       !.Timezone = IF event.Start # Nil THEN StringValue(event.Start[1].TimeZone) ELSE @,
       !.End = IF event.End # Nil THEN StringValue(event.End[1].DateTime) ELSE @,
       !.GuestsCanInviteOthers = IF event.GuestsCanInviteOthers # Nil
                                 THEN BoolValue(event.GuestsCanInviteOthers[1]) ELSE @,
       !.GuestsCanModify = BoolValue(event.GuestsCanModify),
       !.GuestsCanSeeOtherGuests = IF event.GuestsCanSeeOtherGuests # Nil
                                   THEN BoolValue(event.GuestsCanSeeOtherGuests[1]) ELSE @,
       !.ShowAsAvailable = BoolValue(transparencyToBool(event.Transparency)),
       !.Visibility = StringValue(event.Visibility)]

\* "Set recurrence"
readRecurrence(model, event) ==
    [model EXCEPT !.Recurrence = IF Len(event.Recurrence) > 0
                                 THEN ListValue(event.Recurrence) ELSE ListNull]

readConferenceDataWholeUri(model, event) ==
    [model EXCEPT !.Conference =
        IF event.ConferenceData # Nil /\ Len(event.ConferenceData[1].EntryPoints) > 0
        THEN MapValue({<<"google_meet_id", event.ConferenceData[1].EntryPoints[1].Uri>>})
        ELSE MapNull]

\* "Set conference data"
readConferenceData(model, event) ==
    [model EXCEPT !.Conference =
        IF event.ConferenceData # Nil /\ Len(event.ConferenceData[1].EntryPoints) > 0
        THEN MapValue({<<"google_meet_id", Base(event.ConferenceData[1].EntryPoints[1].Uri)>>})
        ELSE MapNull]

\* "Set attendees"
readAttendees(model, event) ==
    [model EXCEPT !.Attendees =
        IF Len(event.Attendees) > 0
        THEN SetValue([i \in 1..Len(event.Attendees) |->
                          [Email |-> StringValue(event.Attendees[i].Email),
                           Optional |-> BoolValue(event.Attendees[i].Optional)]])
        ELSE SetNull]

\* "Set attachments": an empty title is read as null
readAttachments(model, event) ==
    [model EXCEPT !.Attachments =
        IF Len(event.Attachments) > 0
        THEN SetValue([i \in 1..Len(event.Attachments) |->
                          [FileURL |-> StringValue(event.Attachments[i].FileUrl),
                           MimeType |-> StringValue(event.Attachments[i].MimeType),
                           Title |-> IF event.Attachments[i].Title # ""
                                     THEN StringValue(event.Attachments[i].Title)
                                     ELSE StringNull]])
        ELSE SetNull]

readEventResetsNotifications(model, event) ==
    [readAttachments(
       readAttendees(
         readConferenceData(
           readRecurrence(
             readBasicFields(model, event), event), event), event), event)
     EXCEPT !.HTMLLink = StringValue(event.HtmlLink),
            !.SendNotifications = BoolValue(TRUE)]

readEvent(model, event) ==
    [readAttachments(
       readAttendees(
         readConferenceData(
           readRecurrence(
             readBasicFields(model, event), event), event), event), event)
     EXCEPT !.HTMLLink = StringValue(event.HtmlLink)]

\* ------------------------------------------------------ the configuration
Unknown == [st |-> "unknown", v |-> ""]

\* A planned value of the model with only the required attributes set: the
\* schema's defaults for the Optional+Computed attributes, null for the
\* Optional ones, unknown for the Computed ones (id, html_link).
DefaultModel ==
    [ID |-> Unknown, Summary |-> StringValue("standup"),
     Location |-> StringNull, Description |-> StringNull,
     Start |-> StringValue("t1"), End |-> StringValue("t2"),
     Timezone |-> StringValue("UTC"),
     GuestsCanInviteOthers |-> BoolValue(TRUE), GuestsCanModify |-> BoolValue(TRUE),
     GuestsCanSeeOtherGuests |-> BoolValue(TRUE), ShowAsAvailable |-> BoolValue(FALSE),
     SendNotifications |-> BoolValue(TRUE), Visibility |-> StringValue(""),
     Recurrence |-> ListNull, Conference |-> MapNull,
     Attendees |-> SetNull, Attachments |-> SetNull, HTMLLink |-> Unknown]

\* var state eventResourceModel: the zero value, every attribute null
NullModel ==
    [ID |-> StringNull, Summary |-> StringNull, Location |-> StringNull,
     Description |-> StringNull, Start |-> StringNull, End |-> StringNull,
     Timezone |-> StringNull,
     GuestsCanInviteOthers |-> [st |-> "null", v |-> FALSE],
     GuestsCanModify |-> [st |-> "null", v |-> FALSE],
     GuestsCanSeeOtherGuests |-> [st |-> "null", v |-> FALSE],
     ShowAsAvailable |-> [st |-> "null", v |-> FALSE],
     SendNotifications |-> [st |-> "null", v |-> FALSE],
     Visibility |-> StringNull, Recurrence |-> ListNull, Conference |-> MapNull,
     Attendees |-> SetNull, Attachments |-> SetNull, HTMLLink |-> StringNull]

\* an attendee block
Att(email, optional) == [Email |-> StringValue(email), Optional |-> BoolValue(optional)]

\* an attachment block
Attach(url, mime, title) ==
    [FileURL |-> StringValue(url), MimeType |-> StringValue(mime), Title |-> title]

\* sequences over S of length at most n
RECURSIVE SeqsUpTo(_, _)
SeqsUpTo(S, n) ==
    IF n = 0 THEN {<<>>}
    ELSE LET shorter == SeqsUpTo(S, n - 1)
         IN  shorter \cup {Append(q, x) : q \in {r \in shorter : Len(r) = n - 1}, x \in S}

\* a set value lists each element once
NoRepeat(q) == \A i, j \in 1..Len(q) : i # j => q[i] # q[j]

\* the configurations the lifecycle applies
Configs ==
    { DefaultModel,
      [DefaultModel EXCEPT
         !.Summary = StringValue("weekly"), !.Location = StringValue("room"),
         !.Description = StringValue(""), !.ShowAsAvailable = BoolValue(TRUE),
         !.SendNotifications = BoolValue(FALSE), !.Visibility = StringValue("private"),
         !.GuestsCanModify = BoolValue(FALSE),
         !.GuestsCanSeeOtherGuests = BoolValue(FALSE),
         !.Recurrence = ListValue(<<"RRULE:FREQ=WEEKLY">>),
         !.Conference = MapValue({<<"google_meet_id", <<"a", "-", "b">> >>}),
         !.Attendees = SetValue(<<Att("alice@x", FALSE), Att("bob@x", TRUE)>>),
         !.Attachments = SetValue(<<Attach("u1", "text/plain", StringNull)>>)],
      [DefaultModel EXCEPT
         !.SendNotifications = BoolValue(FALSE),
         !.Recurrence = ListValue(<<>>),
         !.Attendees = SetValue(<<Att("alice@x", TRUE), Att("alice@x", FALSE)>>)],
      [DefaultModel EXCEPT
         !.Conference = MapValue({<<"note", <<"a">> >>}),
         !.Attendees = SetValue(<<Att("alice@x", TRUE)>>),
         !.Attachments = SetValue(<<Attach("u1", "text/plain", StringNull),
                                    Attach("u1", "text/plain", StringValue(""))>>)],
      [DefaultModel EXCEPT !.Recurrence = ListOfNull] }

\* Create's plan: the configuration, id and html_link unknown
PlanForCreate(cfg) == cfg

\* Update's plan: the configuration, with id and html_link taken from the
\* prior state by the UseStateForUnknown plan modifiers
PlanForUpdate(cfg, prior) == [cfg EXCEPT !.ID = prior.ID, !.HTMLLink = prior.HTMLLink]

\* ----------------------------------------------------- the remote service
\* identifiers and links the remote service hands out, in order
EventIds == <<"evt1", "evt2", "evt3", "evt4">>
EventLinks == <<"link1", "link2", "link3", "link4">>

\* Events.Insert(...).Do(): on success the service stores the event under a
\* fresh identifier and returns it
ApiInsert(rem, event, ok, n) ==
    IF ok
    THEN LET stored == [event EXCEPT !.Id = EventIds[n], !.HtmlLink = EventLinks[n]]
         IN  [err |-> FALSE, event |-> stored, remote |-> Ptr(stored)]
    ELSE [err |-> TRUE, event |-> EmptyEvent, remote |-> rem]

\* Events.Get(...).Do(): fails when the service fails or has no such event
ApiGet(rem, id, ok) ==
    IF ok /\ rem # Nil /\ rem[1].Id = id
    THEN [err |-> FALSE, event |-> rem[1], remote |-> rem]
    ELSE [err |-> TRUE, event |-> EmptyEvent, remote |-> rem]

\* Events.Update(...).Do(): on success the service replaces the event
ApiUpdate(rem, id, event, ok) ==
    IF ok /\ rem # Nil /\ rem[1].Id = id
    THEN LET stored == [event EXCEPT !.Id = id]
         IN  [err |-> FALSE, event |-> stored, remote |-> Ptr(stored)]
    ELSE [err |-> TRUE, event |-> EmptyEvent, remote |-> rem]

\* Events.Delete(...).Do()
ApiDelete(rem, id, ok) ==
    IF ok /\ rem # Nil /\ rem[1].Id = id
    THEN [err |-> FALSE, remote |-> Nil]
    ELSE [err |-> TRUE, remote |-> rem]

\* ------------------------------------------------------- the remote calls
\* the options of a call; Nil is an option the call does not set
MutationOpts(sendNotifications) ==
    [SupportsAttachments |-> Ptr(TRUE), ConferenceDataVersion |-> Ptr(ConferenceVersion),
     SendNotifications |-> Ptr(sendNotifications), MaxAttendees |-> Ptr(AttendeeCap)]

NoOpts ==
    [SupportsAttachments |-> Nil, ConferenceDataVersion |-> Nil,
     SendNotifications |-> Nil, MaxAttendees |-> Nil]

InsertCall(plan, event, err) ==
    [op |-> "insert", calendarId |-> "primary", eventId |-> "", body |-> Ptr(event),
     opts |-> MutationOpts(plan.SendNotifications.v), err |-> err]

GetCall(id, err) ==
    [op |-> "get", calendarId |-> "primary", eventId |-> id, body |-> Nil,
     opts |-> NoOpts, err |-> err]

UpdateCallNotifiesByDefault(plan, event, err) ==
    [op |-> "update", calendarId |-> "primary", eventId |-> plan.ID.v, body |-> Ptr(event),
     opts |-> [MutationOpts(TRUE) EXCEPT !.SupportsAttachments = Nil], err |-> err]

UpdateCall(plan, event, err) ==
    [op |-> "update", calendarId |-> "primary", eventId |-> plan.ID.v, body |-> Ptr(event),
     opts |-> MutationOpts(plan.SendNotifications.v), err |-> err]

DeleteCallAlwaysNotifies(state, err) ==
    [op |-> "delete", calendarId |-> "primary", eventId |-> state.ID.v, body |-> Nil,
     opts |-> [NoOpts EXCEPT !.SendNotifications = Ptr(TRUE)], err |-> err]

DeleteCall(state, err) ==
    [op |-> "delete", calendarId |-> "primary", eventId |-> state.ID.v, body |-> Nil,
     opts |-> [NoOpts EXCEPT !.SendNotifications = Ptr(state.SendNotifications.v)],
     err |-> err]

\* ----------------------------------------------------------- the handlers
\* A handler's outcome: the state the host keeps afterwards (Nil: none), the
\* error diagnostic, the remote calls it issued in order, the remote store
\* afterwards, the event its get returned and the event its insert or
\* update returned.
Outcome(st, err, issued, rem, got, resp) ==
    [State |-> st, err |-> err, calls |-> issued, remote |-> rem, got |-> got, resp |-> resp]

\* what transparencyToBool logs or reports for s: its body is the comparison
\* alone
transparencyWarnings(s) == <<>>

\* what readEvent logs or reports: it has no diagnostics and only the
\* conversions it calls could warn
readEventWarnings(event) == transparencyWarnings(event.Transparency)

\* the warnings of a handler: those of the readEvent it ran, which Create
\* and Update run on the event their insert or update returned and Read on
\* the event its get returned
handlerWarnings(name, r) ==
    IF r.resp # Nil THEN readEventWarnings(r.resp[1])
    ELSE IF name = "Read" /\ r.got # Nil THEN readEventWarnings(r.got[1])
    ELSE <<>>

\* "Set the ID"
adoptId(plan, event, eventAPI) == [plan EXCEPT !.ID = StringValue(eventAPI.Id)]

\* Create: resp.State starts null and is set only after a successful insert
\* the diagnostics of resp.State.Set(ctx, &model): a set value is validated
\* on its way into state, and one that holds the same element twice is an
\* error
stateSetDiags(model) ==
    IF \/ (~IsNull(model.Attendees) /\ ~NoRepeat(model.Attendees.v))
       \/ (~IsNull(model.Attachments) /\ ~NoRepeat(model.Attachments.v))
    THEN <<"Duplicate Set Element">>
    ELSE <<>>

\* resp.Diagnostics.Append(resp.State.Set(ctx, &model)...): on an error
\* resp.State stays what it was
StateSet(current, model) ==
    IF HasError(stateSetDiags(model))
    THEN [State |-> current, err |-> TRUE]
    ELSE [State |-> Ptr(model), err |-> FALSE]

\* Create and Update, "Build the event": return when buildEvent gave error
\* diagnostics, before the insert or the update is issued
buildFailed(st, issued, rem, got) ==
    Outcome(st, TRUE, issued, rem, got, Nil)

CreateHandler(plan, rem, ok, n) ==
    LET event == buildEvent(plan, EmptyEvent)
        r == ApiInsert(rem, event, ok, n)
    IN  IF HasError(buildEventDiags(plan))
        THEN buildFailed(Nil, <<>>, rem, Nil)
        ELSE IF r.err
        THEN Outcome(Nil, TRUE, <<InsertCall(plan, event, TRUE)>>, r.remote, Nil, Nil)
        ELSE LET s == StateSet(Nil, readEvent(adoptId(plan, event, r.event), r.event))
             IN  Outcome(s.State, s.err, <<InsertCall(plan, event, FALSE)>>, r.remote,
                         Nil, Ptr(r.event))

ReadHandlerDropsMissing(prior, rem, ok) ==
    LET g == ApiGet(rem, prior.ID.v, ok)
    IN  IF g.err
        THEN Outcome(Nil, TRUE, <<GetCall(prior.ID.v, TRUE)>>, g.remote, Nil, Nil)
        ELSE LET s == StateSet(Ptr(prior), readEvent(prior, g.event))
             IN  Outcome(s.State, s.err, <<GetCall(prior.ID.v, FALSE)>>, g.remote,
                         Ptr(g.event), Nil)

\* Read: resp.State starts as the prior state
ReadHandler(prior, rem, ok) ==
    LET g == ApiGet(rem, prior.ID.v, ok)
    IN  IF g.err
        THEN Outcome(Ptr(prior), TRUE, <<GetCall(prior.ID.v, TRUE)>>, g.remote, Nil, Nil)
        ELSE LET s == StateSet(Ptr(prior), readEvent(prior, g.event))
             IN  Outcome(s.State, s.err, <<GetCall(prior.ID.v, FALSE)>>, g.remote,
                         Ptr(g.event), Nil)

getFailedRetried(prior, call, rem) ==
    Outcome(Ptr(prior), TRUE, <<call, call>>, rem, Nil, Nil)

\* Update, "Error reading event for update": return after the failed get
getFailed(prior, call, rem) ==
    Outcome(Ptr(prior), TRUE, <<call>>, rem, Nil, Nil)

updateFailedKeepsPlan(prior, plan, issued, rem, got) ==
    Outcome(Ptr(plan), TRUE, issued, rem, Ptr(got), Nil)

\* Update, "Error updating event": return after the failed update
updateFailed(prior, plan, issued, rem, got) ==
    Outcome(Ptr(prior), TRUE, issued, rem, Ptr(got), Nil)

updatedStateOfFreshModel(plan, eventAPI) == readEvent(NullModel, eventAPI)

\* Update, "Update the state with the API data": the model handed to
\* State.Set
updatedState(plan, eventAPI) == readEvent(plan, eventAPI)

\* Update up to its second remote call.  resp.State starts as the prior
\* state.  The handler is done after a failed get and after a buildEvent
\* with error diagnostics; otherwise it goes on to send the event it built
\* from the one the get returned.
UpdateHandlerGet(prior, plan, rem, getOk) ==
    LET g == ApiGet(rem, plan.ID.v, getOk)
    IN  IF g.err
        THEN [done |-> TRUE, outcome |-> getFailed(prior, GetCall(plan.ID.v, TRUE), g.remote)]
        ELSE IF HasError(buildEventDiags(plan))
        THEN [done |-> TRUE,
              outcome |-> buildFailed(Ptr(prior), <<GetCall(plan.ID.v, FALSE)>>,
                                      g.remote, Ptr(g.event))]
        ELSE [done |-> FALSE, got |-> g.event, event |-> buildEvent(plan, g.event)]

\* Update from its second remote call on: the update of the event as the
\* calendar holds it when the call arrives
UpdateHandlerSend(prior, plan, got, event, rem, updOk) ==
    LET u == ApiUpdate(rem, plan.ID.v, event, updOk)
        issued == <<GetCall(plan.ID.v, FALSE), UpdateCall(plan, event, u.err)>>
    IN  IF u.err
        THEN updateFailed(prior, plan, issued, u.remote, got)
        ELSE LET s == StateSet(Ptr(prior), updatedState(plan, u.event))
             IN  Outcome(s.State, s.err, issued, u.remote, Ptr(got), Ptr(u.event))

\* Delete: resp.State starts as the prior state; the host removes the
\* resource from state when Delete returns without an error diagnostic
DeleteHandler(prior, rem, ok) ==
    LET d == ApiDelete(rem, prior.ID.v, ok)
    IN  IF d.err
        THEN Outcome(Ptr(prior), TRUE, <<DeleteCall(prior, TRUE)>>, d.remote, Nil, Nil)
        ELSE Outcome(Nil, FALSE, <<DeleteCall(prior, FALSE)>>, d.remote, Nil, Nil)

\* ---------------------------------------------------------------- state
VARIABLES
    state,      \* the resource's Terraform state: Nil, or Ptr(model)
    remote,     \* the event on the calendar "primary": Nil, or Ptr(event)
    inserted,   \* how many events the service has created
    createdId,  \* the id the insert of the Create that made state returned
    calls,      \* the remote calls the last handler issued, in order
    last,       \* the last handler: its name, inputs and outcome
    pending,    \* the Update waiting to send its update call: Nil, or Ptr
    mStage,     \* SpecMap: "in", "built", "failed", "read", "remote"; "off" under Spec
    mIn,        \* SpecMap: the model given to buildEvent
    mBase,      \* SpecMap: the event given to buildEvent
    mBuilt,     \* SpecMap: the event buildEvent returned
    mOut        \* SpecMap: the model readEvent produced

lifeVars == <<state, remote, inserted, createdId, calls, last, pending>>
mapVars == <<mStage, mIn, mBase, mBuilt, mOut>>
vars == <<state, remote, inserted, createdId, calls, last, pending,
          mStage, mIn, mBase, mBuilt, mOut>>

NoHandler ==
    [op |-> "none", err |-> FALSE, prior |-> Nil, plan |-> Nil, present |-> FALSE,
     got |-> Nil, resp |-> Nil, warnings |-> <<>>]

InitLife ==
    /\ state = Nil
    /\ remote = Nil
    /\ inserted = 0
    /\ createdId = ""
    /\ calls = <<>>
    /\ last = NoHandler
    /\ pending = Nil

InitMapOff ==
    /\ mStage = "off"
    /\ mIn = DefaultModel
    /\ mBase = EmptyEvent
    /\ mBuilt = EmptyEvent
    /\ mOut = DefaultModel

Init == InitLife /\ InitMapOff

\* What every handler leaves behind when it returns.  last records the handler's name, its
\* prior state and plan, whether the event was on the calendar when it
\* started, its outcome and the warnings it emitted.
Handled(name, prior, plan, present, r) ==
    /\ state' = r.State
    /\ remote' = r.remote
    /\ calls' = r.calls
    /\ last' = [op |-> name, err |-> r.err, prior |-> prior, plan |-> plan,
                present |-> present, got |-> r.got, resp |-> r.resp,
                warnings |-> handlerWarnings(name, r)]

Create ==
    /\ state = Nil
    /\ pending = Nil
    /\ inserted < MaxInserts
    /\ \E cfg \in Configs, ok \in BOOLEAN :
          LET plan == PlanForCreate(cfg)
              r == CreateHandler(plan, remote, ok, inserted + 1)
          IN  /\ Handled("Create", Nil, Ptr(plan), remote # Nil, r)
              /\ inserted' = IF r.resp # Nil THEN inserted + 1 ELSE inserted
              /\ createdId' = IF r.State # Nil THEN r.resp[1].Id ELSE createdId
    /\ UNCHANGED pending
    /\ UNCHANGED mapVars

Read ==
    /\ state # Nil
    /\ pending = Nil
    /\ \E ok \in BOOLEAN :
          Handled("Read", state, Nil, remote # Nil, ReadHandler(state[1], remote, ok))
    /\ UNCHANGED <<inserted, createdId, pending>>
    /\ UNCHANGED mapVars

\* Update, from its start to the return of Events.Get(...).Do() and of
\* buildEvent: it returns, or waits to send its update call
Update ==
    /\ state # Nil
    /\ pending = Nil
    /\ \E cfg \in Configs, getOk \in BOOLEAN :
          LET plan == PlanForUpdate(cfg, state[1])
              r == UpdateHandlerGet(state[1], plan, remote, getOk)
          IN  IF r.done
              THEN /\ Handled("Update", state, Ptr(plan), remote # Nil, r.outcome)
                   /\ UNCHANGED pending
              ELSE /\ pending' = Ptr([plan |-> plan, present |-> remote # Nil,
                                       got |-> r.got, event |-> r.event])
                   /\ UNCHANGED <<state, remote, calls, last>>
    /\ UNCHANGED <<inserted, createdId>>
    /\ UNCHANGED mapVars

\* Update, from Events.Update(...).Do() to its return; the calendar may have
\* changed since the get
UpdateSend ==
    /\ pending # Nil
    /\ \E updOk \in BOOLEAN :
          Handled("Update", state, Ptr(pending[1].plan), pending[1].present,
                  UpdateHandlerSend(state[1], pending[1].plan, pending[1].got,
                                    pending[1].event, remote, updOk))
    /\ pending' = Nil
    /\ UNCHANGED <<inserted, createdId>>
    /\ UNCHANGED mapVars

Delete ==
    /\ state # Nil
    /\ pending = Nil
    /\ \E ok \in BOOLEAN :
          LET r == DeleteHandler(state[1], remote, ok)
          IN  /\ Handled("Delete", state, Nil, remote # Nil, r)
              /\ createdId' = IF r.err THEN createdId ELSE ""
    /\ UNCHANGED <<inserted, pending>>
    /\ UNCHANGED mapVars

\* someone else deletes the event on the calendar
ExternalDelete ==
    /\ remote # Nil
    /\ remote' = Nil
    /\ UNCHANGED <<state, inserted, createdId, calls, last, pending>>
    /\ UNCHANGED mapVars

\* the invited attendees answer: the service records their response status
ExternalRsvp ==
    /\ remote # Nil
    /\ \E i \in 1..Len(remote[1].Attendees) : remote[1].Attendees[i].ResponseStatus = ""
    /\ remote' = Ptr([remote[1] EXCEPT !.Attendees =
                        [i \in 1..Len(remote[1].Attendees) |->
                            [remote[1].Attendees[i] EXCEPT !.ResponseStatus = "accepted"]]])
    /\ UNCHANGED <<state, inserted, createdId, calls, last, pending>>
    /\ UNCHANGED mapVars

\* the edits someone else makes to the event on the calendar: the guest
\* permissions back at their defaults, which the service then leaves out of
\* the event; a transparency the resource does not know
ExternalEdits == {"defaults", "tentative"}

Edited(event, edit) ==
    IF edit = "defaults"
    THEN [event EXCEPT !.GuestsCanInviteOthers = Nil, !.GuestsCanSeeOtherGuests = Nil]
    ELSE [event EXCEPT !.Transparency = "tentative"]

ExternalEdit ==
    /\ remote # Nil
    /\ \E edit \in ExternalEdits :
          /\ Edited(remote[1], edit) # remote[1]
          /\ remote' = Ptr(Edited(remote[1], edit))
    /\ UNCHANGED <<state, inserted, createdId, calls, last, pending>>
    /\ UNCHANGED mapVars

Next ==
    \/ Create \/ Read \/ Update \/ UpdateSend \/ Delete
    \/ ExternalDelete \/ ExternalRsvp \/ ExternalEdit

Spec == Init /\ [][Next]_vars

\* ------------------------------------------------------ the field mapping
OptStrings(S) == {StringNull} \cup {StringValue(x) : x \in S \cup {""}}

RecurLines == {"RRULE:FREQ=WEEKLY", "EXDATE:20240101"}
Recurrences ==
    {ListNull, ListUnknown, ListOfNull}
    \cup {ListValue(q) : q \in SeqsUpTo(RecurLines, MaxRecur)}

MeetChars == {"a", "-", "/", "."}
MeetIds == SeqsUpTo(MeetChars, MaxIdLen)
Conferences ==
    {MapNull, MapValue({}), MapValue({<<"note", <<"a">> >>}), MapOfNull("google_meet_id")}
    \cup {MapValue({<<"google_meet_id", id>>}) : id \in MeetIds}
    \cup {MapValue({<<"google_meet_id", <<"a", "-">> >>, <<"note", <<"a">> >>})}

\* conference data as the remote service may hold it
EntryPoint(uri) == [EntryPointType |-> "video", Label |-> <<>>, Uri |-> uri]
RemoteConferences ==
    { Nil,
      Ptr([ConferenceSolution |-> Nil, EntryPoints |-> <<>>]),
      Ptr([ConferenceSolution |-> Nil,
           EntryPoints |-> <<EntryPoint(MeetUriPrefix \o <<"z">>)>>]),
      Ptr([ConferenceSolution |-> Nil,
           EntryPoints |-> <<EntryPoint(MeetUriPrefix \o <<"z", "/">>),
                             EntryPoint(<<"t", "e", "l", ":", "1">>)>>]) }

Emails == {"alice@x", "bob@x"}
DesiredAttendees ==
    {SetNull} \cup
    {SetValue(q) : q \in {r \in SeqsUpTo({Att(e, o) : e \in Emails, o \in BOOLEAN}, MaxAtt) :
                              NoRepeat(r)}}
RemoteAttendees ==
    SeqsUpTo([Email : Emails, Optional : BOOLEAN, ResponseStatus : {"", "accepted"}], MaxAtt)

DesiredAttachments ==
    {SetNull, SetValue(<<>>)} \cup
    {SetValue(<<Attach("u1", "text/plain", t)>>) : t \in OptStrings({"notes"})}
RemoteAttachments ==
    {<<>>, <<[FileUrl |-> "u0", MimeType |-> "image/png", Title |-> ""]>>}

\* The inputs of the field mapping: a model and the event buildEvent is
\* given, one group of attributes varied at a time.
InitMapInputs ==
    \/ \E su \in {"standup", ""}, lo \in OptStrings({"room"}), de \in OptStrings({"agenda"}),
          st \in {"t1", "t2"}, en \in {"t1", "t2"}, tz \in {"UTC", "Europe/Paris"},
          vi \in {"", "public", "private"}, re \in Recurrences :
          /\ mIn = [DefaultModel EXCEPT !.Summary = StringValue(su), !.Location = lo,
                                        !.Description = de, !.Start = StringValue(st),
                                        !.End = StringValue(en), !.Timezone = StringValue(tz),
                                        !.Visibility = StringValue(vi), !.Recurrence = re]
          /\ mBase = EmptyEvent
    \/ \E a \in BOOLEAN, b \in BOOLEAN, c \in BOOLEAN, d \in BOOLEAN, e \in BOOLEAN,
          t \in {"", "opaque", "transparent", "tentative"} :
          /\ mIn = [DefaultModel EXCEPT !.GuestsCanInviteOthers = BoolValue(a),
                                        !.GuestsCanModify = BoolValue(b),
                                        !.GuestsCanSeeOtherGuests = BoolValue(c),
                                        !.ShowAsAvailable = BoolValue(d),
                                        !.SendNotifications = BoolValue(e)]
          /\ mBase = [EmptyEvent EXCEPT !.Transparency = t]
    \/ \E co \in Conferences, rc \in RemoteConferences :
          /\ mIn = [DefaultModel EXCEPT !.Conference = co]
          /\ mBase = [EmptyEvent EXCEPT !.ConferenceData = rc]
    \/ \E at \in DesiredAttendees, ra \in RemoteAttendees :
          /\ mIn = [DefaultModel EXCEPT !.Attendees = at]
          /\ mBase = [EmptyEvent EXCEPT !.Attendees = ra]
    \/ \E at \in DesiredAttachments, ra \in RemoteAttachments,
          re \in {ListNull, ListValue(<<>>)}, rr \in {<<>>, <<"RRULE:FREQ=DAILY">>} :
          /\ mIn = [DefaultModel EXCEPT !.Attachments = at, !.Recurrence = re]
          /\ mBase = [EmptyEvent EXCEPT !.Attachments = ra, !.Recurrence = rr]

InitMap ==
    /\ InitLife
    /\ mStage = "in"
    /\ InitMapInputs
    /\ mBuilt = EmptyEvent
    /\ mOut = DefaultModel

\* buildEvent(ctx, &model, event); "failed" when it returns error diagnostics
MapBuild ==
    /\ mStage = "in"
    /\ mBuilt' = buildEvent(mIn, mBase)
    /\ mStage' = IF HasError(buildEventDiags(mIn)) THEN "failed" ELSE "built"
    /\ UNCHANGED <<mIn, mBase, mOut>>
    /\ UNCHANGED lifeVars

\* readEvent(ctx, &model, event) on the event buildEvent returned
MapRead ==
    /\ mStage = "built"
    /\ mOut' = readEvent(mIn, mBuilt)
    /\ mStage' = "read"
    /\ UNCHANGED <<mIn, mBase, mBuilt>>
    /\ UNCHANGED lifeVars

\* readEvent(ctx, &model, event) on an event as the remote service holds it
MapReadRemote ==
    /\ mStage = "in"
    /\ mOut' = readEvent(mIn, mBase)
    /\ mStage' = "remote"
    /\ UNCHANGED <<mIn, mBase, mBuilt>>
    /\ UNCHANGED lifeVars

NextMap == MapBuild \/ MapRead \/ MapReadRemote

SpecMap == InitMap /\ [][NextMap]_vars

\* ----------------------------------------------------------------- claims
\* C1: after a Create that issued its insert call, if the call succeeded
\* then local state exists, no error is reported and the state's id is the
\* identifier the insert returned; if the call failed then an error is
\* reported and there is no local state.
C1_CreateAdoptsRemoteId ==
    (last.op = "Create" /\ Len(calls) > 0) =>
        /\ Len(calls) = 1 /\ calls[1].op = "insert"
        /\ ~calls[1].err =>
              /\ ~last.err
              /\ state # Nil
              /\ last.resp # Nil
              /\ last.resp[1].Id # ""
              /\ state[1].ID = StringValue(last.resp[1].Id)
        /\ calls[1].err => last.err /\ state = Nil

\* C2: whenever local state exists its id is known and is the identifier
\* the remote service returned to the Create that made the state; a Read or
\* an Update, failed or not, leaves the id as it was in the prior state.
C2_IdFromRemoteOnly ==
    /\ state # Nil =>
          /\ createdId \in {EventIds[n] : n \in 1..inserted}
          /\ state[1].ID = StringValue(createdId)
    /\ (last.op \in {"Read", "Update"} /\ state # Nil) => state[1].ID = last.prior[1].ID

\* an Update replaced the state of the second event created
C2_Witness ==
    /\ last.op = "Update" /\ ~last.err
    /\ state # last.prior
    /\ state[1].ID = StringValue("evt2")

\* C3: Delete issues exactly one call, a delete for the id of the prior
\* state whose send-notifications parameter is the prior state's flag; the
\* state is removed when the call succeeded, and when it failed an error is
\* reported and the state is the prior state.
C3_DeleteHonoursFlag ==
    last.op = "Delete" =>
        /\ Len(calls) = 1
        /\ calls[1].op = "delete"
        /\ calls[1].calendarId = "primary"
        /\ calls[1].eventId = last.prior[1].ID.v
        /\ calls[1].opts.SendNotifications = Ptr(last.prior[1].SendNotifications.v)
        /\ ~calls[1].err => ~last.err /\ state = Nil
        /\ calls[1].err => last.err /\ state = last.prior /\ state # Nil

\* a Delete with notifications disabled succeeded
C3_Witness ==
    /\ last.op = "Delete" /\ ~last.err /\ state = Nil
    /\ last.prior[1].SendNotifications = BoolValue(FALSE)
    /\ calls[1].opts.SendNotifications = Ptr(FALSE)

\* C4: when the get call of a Read fails, whether or not the event is still
\* on the calendar, Read reports an error and the state is the prior state:
\* the resource stays in state.
C4_ReadFailureKeepsState ==
    (last.op = "Read" /\ calls[1].err) =>
        /\ last.err
        /\ state # Nil
        /\ state = last.prior

\* a Read failed because the event was no longer on the calendar
C4_Witness ==
    /\ last.op = "Read" /\ last.err /\ ~last.present
    /\ calls = <<GetCall(state[1].ID.v, TRUE)>>

\* C5: after Update, if the get failed no update call was issued and the
\* state is the prior state; if the update call failed the state is the
\* prior state; the state is replaced, and no error reported, only when
\* both calls succeeded, and then the state is the plan overwritten by
\* readEvent from the event the update call returned.  After two successful
\* calls the state is either that or, with an error, the prior state.
C5_UpdateAllOrNothing ==
    last.op = "Update" =>
        /\ calls[1].op = "get"
        /\ calls[1].err =>
              /\ \A i \in 1..Len(calls) : calls[i].op # "update"
              /\ last.err /\ state = last.prior
        /\ Len(calls) = 2 =>
              /\ ~calls[1].err /\ calls[2].op = "update"
              /\ calls[2].err => last.err /\ state = last.prior
              /\ ~calls[2].err =>
                    /\ last.resp # Nil
                    /\ \/ ~last.err /\ state = Ptr(readEvent(last.plan[1], last.resp[1]))
                       \/ last.err /\ state = last.prior
        /\ (state # last.prior \/ ~last.err) =>
              /\ Len(calls) = 2 /\ ~calls[1].err /\ ~calls[2].err
              /\ state = Ptr(readEvent(last.plan[1], last.resp[1]))

\* the update call failed after a successful get, under a plan that differs
\* from the prior state
C5_Witness ==
    /\ last.op = "Update" /\ Len(calls) = 2
    /\ ~calls[1].err /\ calls[2].err
    /\ last.plan[1].Summary # last.prior[1].Summary
    /\ state = last.prior

\* C6: Create, Read and Delete each issue at most one call (insert, get,
\* delete) and exactly one unless they return before the remote step, which
\* only a Create whose buildEvent reports an error does; Update issues a
\* get and, only when that get succeeded, at most one update after it; no
\* call follows a failed call.
C6_CallsPerHandler ==
    /\ last.op = "Create" =>
          /\ Len(calls) <= 1
          /\ Len(calls) = 1 => calls[1].op = "insert"
          /\ Len(calls) = 0 <=> HasError(buildEventDiags(last.plan[1]))
    /\ last.op = "Read" => Len(calls) = 1 /\ calls[1].op = "get"
    /\ last.op = "Delete" => Len(calls) = 1 /\ calls[1].op = "delete"
    /\ last.op = "Update" =>
          /\ Len(calls) \in {1, 2}
          /\ calls[1].op = "get"
          /\ Len(calls) = 2 => ~calls[1].err
          /\ Len(calls) = 2 => calls[2].op = "update"
          /\ (Len(calls) = 1 /\ ~calls[1].err) => HasError(buildEventDiags(last.plan[1]))
    /\ \A i \in 1..Len(calls) : calls[i].err => i = Len(calls)

\* an Update whose get failed issued that one call only
C6_Witness ==
    /\ last.op = "Update"
    /\ Len(calls) = 1 /\ calls[1].op = "get" /\ calls[1].err
    /\ last.present

\* one desired attendee merged as C7 states it: the record sent is a remote
\* record with the same email, its optional flag overwritten by the desired
\* one, or, when no remote record has that email, a record holding the
\* desired email and optional flag and nothing else
MergedAsClaimed(sent, desired, existing) ==
    IF \E k \in 1..Len(existing) : existing[k].Email = desired.Email.v
    THEN \E k \in 1..Len(existing) :
            /\ existing[k].Email = desired.Email.v
            /\ sent = [existing[k] EXCEPT !.Optional = desired.Optional.v]
    ELSE sent = [Email |-> desired.Email.v, Optional |-> desired.Optional.v,
                 ResponseStatus |-> ""]

\* C7: in the event an Update sends, the attendee at the position of each
\* desired attendee is that desired attendee merged with the attendees of
\* the event the get returned: the remote record of the same email with only
\* its optional flag overwritten by the desired value, or a fresh record
\* with the desired email and optional flag.
C7_AttendeeMerge ==
    (last.op = "Update" /\ Len(calls) = 2 /\ ~IsNull(last.plan[1].Attendees)) =>
        LET desired == last.plan[1].Attendees.v
            sent == calls[2].body[1].Attendees
        IN  /\ Len(sent) = Len(desired)
            /\ \A i \in 1..Len(desired) :
                  MergedAsClaimed(sent[i], desired[i], last.got[1].Attendees)

\* C8 as stated: building from an empty event and reading back yields the
\* same summary, start, end, timezone, guest flags, visibility and
\* recurrence list, and a location and a description that are null exactly
\* when the configured value was empty and equal to it otherwise.
ScalarsRoundTrip ==
    /\ mOut.Summary = mIn.Summary
    /\ mOut.Start = mIn.Start
    /\ mOut.End = mIn.End
    /\ mOut.Timezone = mIn.Timezone
    /\ mOut.GuestsCanInviteOthers = mIn.GuestsCanInviteOthers
    /\ mOut.GuestsCanModify = mIn.GuestsCanModify
    /\ mOut.GuestsCanSeeOtherGuests = mIn.GuestsCanSeeOtherGuests
    /\ mOut.Visibility = mIn.Visibility
    /\ IsNull(mOut.Location) <=> mIn.Location.v = ""
    /\ ~IsNull(mOut.Location) => mOut.Location = mIn.Location
    /\ IsNull(mOut.Description) <=> mIn.Description.v = ""
    /\ ~IsNull(mOut.Description) => mOut.Description = mIn.Description

C8_RoundTripAsStated ==
    (mStage = "read" /\ mBase = EmptyEvent) =>
        /\ ScalarsRoundTrip
        /\ mOut.Recurrence = mIn.Recurrence

\* C8, amended: as stated, except that the recurrence list reads back equal
\* to the configured one only when that one is null or non-empty; a
\* configured empty list reads back null.
C8_RoundTrip ==
    (mStage = "read" /\ mBase = EmptyEvent) =>
        /\ ScalarsRoundTrip
        /\ Len(mIn.Recurrence.v) > 0 => mOut.Recurrence = mIn.Recurrence
        /\ Len(mIn.Recurrence.v) = 0 => mOut.Recurrence = ListNull

\* two recurrence lines come back in their order, an empty location comes
\* back null and a description comes back as configured
C8_Witness ==
    /\ mStage = "read" /\ mBase = EmptyEvent
    /\ mIn.Recurrence = ListValue(<<"RRULE:FREQ=WEEKLY", "EXDATE:20240101">>)
    /\ mOut.Recurrence = mIn.Recurrence
    /\ mIn.Location = StringValue("") /\ IsNull(mOut.Location)
    /\ mOut.Description = StringValue("agenda")
    /\ mIn.Start # mIn.End

\* the conference data buildEvent synthesizes for meet id g
SynthesizedFor(g) ==
    /\ mBuilt.ConferenceData # Nil
    /\ mBuilt.ConferenceData[1].ConferenceSolution # Nil
    /\ mBuilt.ConferenceData[1].ConferenceSolution[1].Key # Nil
    /\ mBuilt.ConferenceData[1].ConferenceSolution[1].Key[1].Type = "hangoutsMeet"
    /\ Len(mBuilt.ConferenceData[1].EntryPoints) = 1
    /\ mBuilt.ConferenceData[1].EntryPoints[1].EntryPointType = "video"
    /\ mBuilt.ConferenceData[1].EntryPoints[1].Uri =
          <<"h","t","t","p","s",":","/","/","m","e","e","t",".","g","o","o","g","l","e",
            ".","c","o","m","/">> \o g
    /\ mBuilt.ConferenceData[1].EntryPoints[1].Label =
          <<"m","e","e","t",".","g","o","o","g","l","e",".","c","o","m","/">> \o g

\* the configured google_meet_id, <<>> when there is none
ConfiguredMeetId == MapLookup(mIn.Conference.v, "google_meet_id").value

NoEntryPointsReadNull ==
    (mStage = "remote" /\ (mBase.ConferenceData = Nil
                           \/ mBase.ConferenceData[1].EntryPoints = <<>>)) =>
        mOut.Conference = MapNull

\* C9 as stated: every non-empty configured meet id is synthesized into
\* hangoutsMeet conference data with one video entry point of URI
\* https://meet.google.com/<id> and label meet.google.com/<id>, and reads
\* back as the same id; a remote event without entry points reads back as a
\* null conference.
C9_ConferenceAsStated ==
    /\ (mStage = "read" /\ ConfiguredMeetId # <<>>) =>
          /\ SynthesizedFor(ConfiguredMeetId)
          /\ mOut.Conference = MapValue({<<"google_meet_id", ConfiguredMeetId>>})
    /\ NoEntryPointsReadNull

\* C9, amended: as stated, except that the id read back is the configured
\* one only when the configured id contains no "/".
C9_Conference ==
    /\ (mStage = "read" /\ ConfiguredMeetId # <<>>) =>
          /\ SynthesizedFor(ConfiguredMeetId)
          /\ (\A i \in 1..Len(ConfiguredMeetId) : ConfiguredMeetId[i] # "/") =>
                mOut.Conference = MapValue({<<"google_meet_id", ConfiguredMeetId>>})
    /\ NoEntryPointsReadNull

\* the meet id "a-" was synthesized over existing conference data and read
\* back
C9_Witness ==
    /\ mStage = "read"
    /\ mIn.Conference = MapValue({<<"google_meet_id", <<"a", "-">> >>})
    /\ mBase.ConferenceData # Nil
    /\ SynthesizedFor(<<"a", "-">>)
    /\ mOut.Conference = mIn.Conference

\* C10: the transparency buildEvent writes for show-as-available b is
\* "transparent" for TRUE and "opaque" for FALSE, and converting it back
\* gives b, in readEvent too.
C10_TransparencyRoundTrip ==
    mStage = "read" =>
        LET b == mIn.ShowAsAvailable.v
        IN  /\ boolToTransparency(b) = (IF b THEN "transparent" ELSE "opaque")
            /\ transparencyToBool(boolToTransparency(b)) = b
            /\ mBuilt.Transparency = (IF b THEN "transparent" ELSE "opaque")
            /\ mOut.ShowAsAvailable = BoolValue(b)

\* show-as-available TRUE was written over an event marked "opaque" and
\* read back
C10_Witness ==
    /\ mStage = "read"
    /\ mIn.ShowAsAvailable = BoolValue(TRUE)
    /\ mBase.Transparency = "opaque"
    /\ mBuilt.Transparency = "transparent"
    /\ mOut.ShowAsAvailable = BoolValue(TRUE)

\* C11: reading a remote event whose transparency s is "opaque" or
\* "transparent" gives a show-as-available flag that converts back to s;
\* for every other s, the empty string included, the flag read is FALSE.
C11_TransparencyReverse ==
    mStage = "remote" =>
        LET s == mBase.Transparency
        IN  /\ s \in {"opaque", "transparent"} =>
                  /\ boolToTransparency(transparencyToBool(s)) = s
                  /\ boolToTransparency(mOut.ShowAsAvailable.v) = s
            /\ s \notin {"opaque", "transparent"} =>
                  /\ transparencyToBool(s) = FALSE
                  /\ mOut.ShowAsAvailable = BoolValue(FALSE)

\* an event of unrecognized transparency was read over a state that showed
\* the time as available
C11_Witness ==
    /\ mStage = "remote"
    /\ mBase.Transparency = "tentative"
    /\ mIn.ShowAsAvailable = BoolValue(TRUE)
    /\ mOut.ShowAsAvailable = BoolValue(FALSE)

\* C12: the send-notifications value of the state a successful Read leaves
\* is the one of the prior state, and the one a successful Create or Update
\* leaves is the one of the plan, whatever event the remote service returned.
C12_NotificationsNeverRead ==
    /\ (last.op = "Read" /\ ~last.err) =>
           state[1].SendNotifications = last.prior[1].SendNotifications
    /\ (last.op \in {"Create", "Update"} /\ ~last.err) =>
           state[1].SendNotifications = last.plan[1].SendNotifications

\* a Read succeeded on an event edited on the calendar, over a state whose
\* notification flag was off
C12_Witness ==
    /\ last.op = "Read"
    /\ ~last.err
    /\ last.got[1].Transparency = "tentative"
    /\ last.prior[1].SendNotifications = BoolValue(FALSE)
    /\ state[1].SendNotifications = BoolValue(FALSE)

\* the attributes of a model that have a counterpart in the remote event:
\* all but the identifier and the notification flag
ModelledFields(m) ==
    [m EXCEPT !.ID = StringNull, !.SendNotifications = NullModel.SendNotifications]

\* C13: after a successful Read every modelled attribute of the state is
\* determined by the event the get returned alone, so it is what reading
\* that event into a model without any prior value gives.
C13_ReadOverwrites ==
    (last.op = "Read" /\ ~last.err) =>
        ModelledFields(state[1]) = ModelledFields(readEvent(NullModel, last.got[1]))

\* C14: a Read whose get returned an event of a transparency other than
\* "opaque" and "transparent" does not fail, leaves show-as-available
\* false and emits a warning.
C14_UnrecognizedTransparency ==
    (/\ last.op = "Read"
     /\ last.got # Nil
     /\ last.got[1].Transparency \notin {"opaque", "transparent"}) =>
        /\ ~last.err
        /\ state[1].ShowAsAvailable = BoolValue(FALSE)
        /\ last.warnings # <<>>

\* C15: every insert call of a Create and every update call of an Update
\* targets the calendar "primary" and carries the same options: attachments
\* supported, conference-data version 1, at most 25 attendees, and
\* send-notifications as the flag of the operation's plan says.
C15_MutationOptions ==
    \A i \in 1..Len(calls) :
        calls[i].op \in {"insert", "update"} =>
            /\ last.op = (IF calls[i].op = "insert" THEN "Create" ELSE "Update")
            /\ calls[i].calendarId = "primary"
            /\ calls[i].opts.SupportsAttachments = <<TRUE>>
            /\ calls[i].opts.ConferenceDataVersion = <<1>>
            /\ calls[i].opts.MaxAttendees = <<25>>
            /\ calls[i].opts.SendNotifications = <<last.plan[1].SendNotifications.v>>

\* an Update issued its update call for a plan with notifications off, after
\* a Create whose plan had them on
C15_Witness ==
    /\ last.op = "Update"
    /\ Len(calls) = 2
    /\ calls[2].op = "update"
    /\ last.prior[1].SendNotifications = BoolValue(TRUE)
    /\ last.plan[1].SendNotifications = BoolValue(FALSE)
    /\ calls[2].opts.SendNotifications = <<FALSE>>

\* a collection value without elements: null, or known and empty
HasNone(x) == IsNull(x) \/ Len(x.v) = 0

\* a conference value that is null or has no non-empty google_meet_id
NoMeetId(conference) ==
    \/ IsNull(conference)
    \/ ~MapLookup(conference.v, "google_meet_id").ok
    \/ MapLookup(conference.v, "google_meet_id").value = <<>>

\* C16 as stated: when the plan of an Update has no attendees (attachments,
\* recurrence, conference with a non-empty google_meet_id), the event sent
\* in the update call carries the attendees (attachments, recurrence,
\* conference data) exactly as the preceding get returned them.
C16_UpdateKeepsAbsentAsStated ==
    (last.op = "Update" /\ Len(calls) = 2) =>
        LET plan == last.plan[1]
            got == last.got[1]
            sent == calls[2].body[1]
        IN  /\ HasNone(plan.Attendees) => sent.Attendees = got.Attendees
            /\ HasNone(plan.Attachments) => sent.Attachments = got.Attachments
            /\ HasNone(plan.Recurrence) => sent.Recurrence = got.Recurrence
            /\ NoMeetId(plan.Conference) => sent.ConferenceData = got.ConferenceData

\* C16: as stated for attendees, attachments and conference; the event
\* sent carries the recurrence exactly as the preceding get returned it when
\* the plan's recurrence is null, and an empty recurrence when the plan's
\* recurrence is a configured empty list.
C16_UpdateKeepsAbsent ==
    (last.op = "Update" /\ Len(calls) = 2) =>
        LET plan == last.plan[1]
            got == last.got[1]
            sent == calls[2].body[1]
        IN  /\ HasNone(plan.Attendees) => sent.Attendees = got.Attendees
            /\ HasNone(plan.Attachments) => sent.Attachments = got.Attachments
            /\ IsNull(plan.Recurrence) => sent.Recurrence = got.Recurrence
            /\ (~IsNull(plan.Recurrence) /\ Len(plan.Recurrence.v) = 0) =>
                   sent.Recurrence = <<>>
            /\ NoMeetId(plan.Conference) => sent.ConferenceData = got.ConferenceData

\* an Update whose plan has none of the four sent the attendees, the
\* attachment, the recurrence and the conference data of the event on the
\* calendar back to it
C16_Witness ==
    /\ last.op = "Update"
    /\ Len(calls) = 2
    /\ last.plan[1] = PlanForUpdate(DefaultModel, last.prior[1])
    /\ Len(last.got[1].Attendees) = 2
    /\ Len(last.got[1].Attachments) = 1
    /\ Len(last.got[1].Recurrence) = 1
    /\ last.got[1].ConferenceData # Nil
    /\ calls[2].body[1].Attendees = last.got[1].Attendees
    /\ calls[2].body[1].Attachments = last.got[1].Attachments
    /\ calls[2].body[1].Recurrence = last.got[1].Recurrence
    /\ calls[2].body[1].ConferenceData = last.got[1].ConferenceData

\* C17: the attendee list buildEvent builds from a desired attendee set and
\* the existing remote attendees has one record per desired element, and the
\* record at the position of a desired element (e, o) has email e and
\* optional flag o, also when desired elements share an email or the remote
\* list repeats one.
C17_OneRecordPerDesired ==
    (mStage = "built" /\ ~IsNull(mIn.Attendees) /\ ~IsUnknown(mIn.Attendees)) =>
        LET desired == mIn.Attendees.v
        IN  /\ Len(mBuilt.Attendees) = Len(desired)
            /\ \A i \in 1..Len(desired) :
                   /\ mBuilt.Attendees[i].Email = desired[i].Email.v
                   /\ mBuilt.Attendees[i].Optional = desired[i].Optional.v

====
